---- MODULE Spec2Model ----
(***************************************************************************)
(* Model of the medication viewer's pagination core:                       *)
(*   - the paginated query adapter  (src/src/data/firestoreApi.ts)          *)
(*   - the viewer state controller  (src/src/stores/MedicationViewerStore.ts)*)
(*                                                                         *)
(* The document store holds a fixed collection of `total` documents.  A    *)
(* document is identified by its rank 1..total in the rxcui ordering, a    *)
(* QueryDocumentSnapshot used as a cursor is the rank of that document,    *)
(* and the null cursor is NullDoc.  Every async method of the store is     *)
(* split at its awaits: the call action runs the code up to the first      *)
(* await, and one action per await outcome runs the continuation up to the *)
(* next await.                                                             *)
(***************************************************************************)
EXTENDS Integers, Sequences, FiniteSets, TLC

\* ---------------------------------------------------------------- bounds
\* dataset sizes are the multiples of Step up to MaxUnits * Step
Step == 50
MaxUnits == 3
\* loadPage is called with page numbers 0 .. MaxPage
MaxPage == 4
\* number of async calls that can be in flight at once
MaxTasks == 2

\* ------------------------------------------------------ program constants
PAGE_SIZE == 100
FETCH_ALL_PAGE_SIZE == 100

NullDoc == 0
NoError == "null"
UnknownCount == -1

Totals == {k * Step : k \in 0..MaxUnits}
Tasks == 1..MaxTasks
Pages == 0..MaxPage
\* what a failed store call throws: Firestore rejects with a FirebaseError,
\* which is an Error object
Thrown == {"Error"}
StoreErrorMessage == "FirebaseError"

VARIABLES
  total,                \* number of documents in the collection (fixed)
  medications,          \* store.medications
  isLoading,            \* store.isLoading
  error,                \* store.error
  totalCount,           \* store.totalCount
  isLoadingAll,         \* store.isLoadingAll
  loadingProgress,      \* store.loadingProgress
  allMedicationsLoaded, \* store.allMedicationsLoaded
  currentPage,          \* store.currentPage
  lastDocuments,        \* store.lastDocuments : page index -> cursor
  hasMore,              \* store.hasMore
  searchQuery,          \* store.searchQuery
  matchedOnly,          \* store.matchedOnly
  unmatchedOnly,        \* store.unmatchedOnly
  liquidsOnly,          \* store.liquidsOnly
  solidsOnly,           \* store.solidsOnly
  minNdcCount,          \* store.minNdcCount
  sortField,            \* store.sortField
  sortDirection,        \* store.sortDirection
  viewMode,             \* store.viewMode
  isAuthenticated,      \* store.isAuthenticated
  task,                 \* the async calls in flight
  lastOp,               \* history: the last step that changed the state or
                        \* was a call dropped by the guard of loadPage
  inOrder               \* history: the largest K such that pages 1..K have
                        \* been loaded, in this order, since the last refresh

storeVars == <<medications, isLoading, error, totalCount, isLoadingAll,
               loadingProgress, allMedicationsLoaded, currentPage,
               lastDocuments, hasMore>>
filterVars == <<searchQuery, matchedOnly, unmatchedOnly, liquidsOnly,
                solidsOnly, minNdcCount>>
sortVars == <<sortField, sortDirection, viewMode>>
vars == <<total, isAuthenticated, storeVars, filterVars, sortVars, task,
          lastOp, inOrder>>

MaxOf(S) == CHOOSE x \in S : \A y \in S : y <= x

Min(a, b) == IF a < b THEN a ELSE b
Max(a, b) == IF a > b THEN a ELSE b

\* ------------------------------------------------------------ the adapter

\* mutant: the query starts at the cursor document, not after it
QueryDocsStartAt(pageSize, lastDocument) ==
  LET start == IF lastDocument # NullDoc THEN lastDocument - 1 ELSE 0
      n == Min(pageSize, Max(total - start, 0))
  IN  [j \in 1..n |-> start + j]

\* getDocs(query(orderBy('rxcui'), [startAfter(lastDocument)], limit(pageSize)))
QueryDocs(pageSize, lastDocument) ==
  LET start == IF lastDocument # NullDoc THEN lastDocument ELSE 0
      n == Min(pageSize, Max(total - start, 0))
  IN  [j \in 1..n |-> start + j]

\* mutant: hasMore is reported whenever the page is not empty
fetchMedicationsPageMoreIfAny(pageSize, lastDocument, countOk) ==
  LET docs == QueryDocs(pageSize, lastDocument)
  IN  [medications |-> docs,
       totalCount |-> IF countOk THEN total ELSE 0,
       hasMore |-> Len(docs) > 0,
       lastDoc |-> IF Len(docs) > 0 THEN docs[Len(docs)] ELSE NullDoc]

\* mutant: an empty page hands back the cursor it was fetched with
fetchMedicationsPageKeepsCursor(pageSize, lastDocument, countOk) ==
  LET docs == QueryDocs(pageSize, lastDocument)
  IN  [medications |-> docs,
       totalCount |-> IF countOk THEN total ELSE 0,
       hasMore |-> Len(docs) = pageSize,
       lastDoc |-> IF Len(docs) > 0 THEN docs[Len(docs)] ELSE lastDocument]

\* fetchMedicationsPage; countOk says whether its inner count succeeded
fetchMedicationsPage(pageSize, lastDocument, countOk) ==
  LET docs == QueryDocs(pageSize, lastDocument)
  IN  [medications |-> docs,
       totalCount |-> IF countOk THEN total ELSE 0,
       hasMore |-> Len(docs) = pageSize,
       lastDoc |-> IF Len(docs) > 0 THEN docs[Len(docs)] ELSE NullDoc]

\* ------------------------------------------------------- computed values

\* mutant: the quotient is rounded down
totalPagesFloor == totalCount \div PAGE_SIZE

\* Math.ceil(totalCount / pageSize)
totalPages == (totalCount + PAGE_SIZE - 1) \div PAGE_SIZE
canGoPrev == currentPage > 1
\* mutant: only the page count decides
canGoNextByCount == currentPage < totalPages

canGoNext == hasMore \/ currentPage < totalPages

\* ----------------------------------------------------------------- tasks

\* kind, pc     which method runs and which await it is suspended at
\* page         the argument of loadPage
\* i, doc       loadPage: the loop index and the cursor of the fetch awaited
\*              fetchAllMedications: pages fetched so far and lastDoc
\* count        the count the method obtained
\* acc          fetchAllMedications: its local medications array
\* history, for stating the claims only:
\* log          the fetchMedicationsPage calls loadPage has issued
\* pre          medications, currentPage, hasMore, totalCount at the call
\* k, top       inOrder and the highest cached page index when loadPage
\*              consulted the cache
\* cleared      the page-1 cursor cleared by the refresh that made the call
Idle == [kind |-> "none", pc |-> "idle", page |-> 0, i |-> 0,
         doc |-> NullDoc, count |-> 0, acc |-> <<>>, log |-> <<>>,
         pre |-> <<>>, k |-> 0, top |-> 0, cleared |-> NullDoc]

\* the label of a step
Op(op, page, accepted, log, k, top, kept) ==
  [op |-> op, page |-> page, accepted |-> accepted, log |-> log, k |-> k,
   top |-> top, kept |-> kept]


HasFree == \E t \in Tasks : task[t].kind = "none"
FreeSlot == CHOOSE t \in Tasks :
              task[t].kind = "none" /\ \A u \in 1..(t-1) : task[u].kind # "none"

PageLoads == {t \in Tasks : task[t].kind = "page"}

\* err instanceof Error ? err.message : fallback
ErrorMessage(thrown, fallback) ==
  IF thrown = "Error" THEN StoreErrorMessage ELSE fallback

\* --------------------------------------------------------- the cursor cache

EmptyMap == [j \in {} |-> NullDoc]

\* mutant: setting an entry drops the others
MapSetOnly(cache, i, doc) == [j \in {i} |-> doc]

\* Map.set(i, doc)
MapSet(cache, i, doc) ==
  [j \in (DOMAIN cache) \cup {i} |-> IF j = i THEN doc ELSE cache[j]]

\* mutant: the loop fetches every page below `page`, cached or not
WalkFromNoSkip(i, cur, page, cache) ==
  IF i >= page THEN [i |-> page, doc |-> cur, done |-> TRUE]
  ELSE [i |-> i, doc |-> cur, done |-> FALSE]

\* the loop `for (let i = ...; i < page; i++)` of loadPage, run from index i
\* with currentDoc = cur until it has to await a fetch (done = FALSE) or
\* falls out of the loop (done = TRUE)
RECURSIVE WalkFrom(_, _, _, _)
WalkFrom(i, cur, page, cache) ==
  IF i >= page THEN [i |-> page, doc |-> cur, done |-> TRUE]
  ELSE IF i \in DOMAIN cache THEN WalkFrom(i + 1, cache[i], page, cache)
  ELSE [i |-> i, doc |-> cur, done |-> FALSE]

\* mutant: the page is fetched from the start when no cursor is cached
SelectCursorNoWalk(page, cache) ==
  IF page > 1 /\ (page - 1) \in DOMAIN cache
  THEN [i |-> page, doc |-> cache[page - 1], done |-> TRUE]
  ELSE [i |-> page, doc |-> NullDoc, done |-> TRUE]

\* mutant: the cached cursor of page - 1 is not used, the walk always runs
SelectCursorAlwaysWalk(page, cache) ==
  IF page > 1
  THEN [i |-> 1, doc |-> NullDoc, done |-> FALSE]
  ELSE [i |-> page, doc |-> NullDoc, done |-> TRUE]

\* mutant: the cursor is looked up under the page's own index
SelectCursorOwnIndex(page, cache) ==
  IF page \in DOMAIN cache
  THEN [i |-> page, doc |-> cache[page], done |-> TRUE]
  ELSE IF page > 1
       THEN WalkFrom(1, NullDoc, page, cache)
       ELSE [i |-> page, doc |-> NullDoc, done |-> TRUE]

\* mutant: a page above 1 that has a cursor of its own is fetched after it
SelectCursorAfterOwn(page, cache) ==
  IF page > 1
  THEN IF page \in DOMAIN cache
       THEN [i |-> page, doc |-> cache[page], done |-> TRUE]
       ELSE IF (page - 1) \in DOMAIN cache
            THEN [i |-> page, doc |-> cache[page - 1], done |-> TRUE]
            ELSE WalkFrom(1, NullDoc, page, cache)
  ELSE [i |-> page, doc |-> NullDoc, done |-> TRUE]

\* the choice of the cursor after the count returned
SelectCursor(page, cache) ==
  IF page > 1
  THEN IF (page - 1) \in DOMAIN cache
       THEN [i |-> page, doc |-> cache[page - 1], done |-> TRUE]
       ELSE WalkFrom(1, NullDoc, page, cache)
  ELSE [i |-> page, doc |-> NullDoc, done |-> TRUE]

\* call fetchMedicationsPage for the selected index and cursor and await it
Issue(rec, sel) ==
  [rec EXCEPT !.pc = IF sel.done THEN "final" ELSE "walk",
              !.i = sel.i,
              !.doc = sel.doc,
              !.log = Append(@, [page |-> sel.i, cursor |-> sel.doc])]

\* ---------------------------------------------------------------- loadPage

\* mutant: loadPage without its in-flight guard
PageGuardReentrant(page) == page >= 1

\* the two guards at the head of loadPage
PageGuard(page) == ~isLoading /\ page >= 1

\* loadPage(page) up to its first await (getMedicationCount); a call that the
\* guard drops is labelled as the loadPage call it is, whoever made it
LoadPageCall(op, page) ==
  /\ PageGuard(page) => HasFree
  /\ IF PageGuard(page)
     THEN /\ isLoading' = TRUE
          /\ error' = NoError
          /\ task' = [task EXCEPT ![FreeSlot] =
                        [Idle EXCEPT !.kind = "page", !.pc = "count",
                                     !.page = page,
                                     !.cleared =
                                       IF op = "refresh"
                                          /\ 1 \in DOMAIN lastDocuments
                                       THEN lastDocuments[1] ELSE NullDoc,
                                     !.pre = <<medications, currentPage,
                                               hasMore, totalCount>>]]
     ELSE UNCHANGED <<isLoading, error, task>>
  /\ lastOp' = IF PageGuard(page)
                THEN Op(op, page, TRUE, <<>>, inOrder, 0, TRUE)
                ELSE Op(IF op = "refresh" THEN op ELSE "loadPage", 0, FALSE,
                        <<>>, inOrder, 0, TRUE)

LoadPage(page) ==
  /\ LoadPageCall("loadPage", page)
  /\ UNCHANGED <<total, isAuthenticated, filterVars, sortVars,
                 medications, totalCount, isLoadingAll,
                 loadingProgress, allMedicationsLoaded, currentPage,
                 lastDocuments, hasMore, inOrder>>

NextPage ==
  /\ currentPage + 1 <= MaxPage
  /\ IF canGoNext
     THEN LoadPageCall("nextPage", currentPage + 1)
     ELSE UNCHANGED <<isLoading, error, task, lastOp>>
  /\ UNCHANGED <<total, isAuthenticated, filterVars, sortVars,
                 medications, totalCount, isLoadingAll,
                 loadingProgress, allMedicationsLoaded, currentPage,
                 lastDocuments, hasMore, inOrder>>

PrevPage ==
  /\ IF canGoPrev
     THEN LoadPageCall("prevPage", currentPage - 1)
     ELSE UNCHANGED <<isLoading, error, task, lastOp>>
  /\ UNCHANGED <<total, isAuthenticated, filterVars, sortVars,
                 medications, totalCount, isLoadingAll,
                 loadingProgress, allMedicationsLoaded, currentPage,
                 lastDocuments, hasMore, inOrder>>

FirstPage ==
  /\ LoadPageCall("firstPage", 1)
  /\ UNCHANGED <<total, isAuthenticated, filterVars, sortVars,
                 medications, totalCount, isLoadingAll,
                 loadingProgress, allMedicationsLoaded, currentPage,
                 lastDocuments, hasMore, inOrder>>

Refresh ==
  /\ lastDocuments' = EmptyMap
  /\ allMedicationsLoaded' = FALSE
  /\ LoadPageCall("refresh", 1)
  /\ inOrder' = 0
  /\ UNCHANGED <<total, isAuthenticated, filterVars, sortVars,
                 medications, totalCount, isLoadingAll,
                 loadingProgress, currentPage, hasMore>>

\* getMedicationCount() returned: choose the cursor and issue the next fetch
CountOk(t) ==
  /\ task[t].kind = "page" /\ task[t].pc = "count"
  /\ task' = [task EXCEPT ![t] =
                Issue([@ EXCEPT !.count = total,
                                !.k = inOrder,
                                !.top = MaxOf({0} \cup DOMAIN lastDocuments)],
                      SelectCursor(task[t].page, lastDocuments))]
  /\ lastOp' = Op("count", task[t].page, TRUE, task'[t].log, inOrder,
                  task'[t].top, TRUE)
  /\ UNCHANGED <<total, isAuthenticated, filterVars, sortVars,
                 storeVars, inOrder>>

\* a fetch of the walk returned: cache its cursor and go on with the loop
WalkFetchOk(t, countOk) ==
  /\ task[t].kind = "page" /\ task[t].pc = "walk"
  /\ LET result == fetchMedicationsPage(PAGE_SIZE, task[t].doc, countOk)
         cache == IF result.lastDoc # NullDoc
                  THEN MapSet(lastDocuments, task[t].i, result.lastDoc)
                  ELSE lastDocuments
         cur == IF result.lastDoc # NullDoc THEN result.lastDoc
                ELSE task[t].doc
     IN  /\ lastDocuments' = cache
         /\ task' = [task EXCEPT ![t] =
                       Issue(@, WalkFrom(task[t].i + 1, cur, task[t].page,
                                         cache))]
  /\ lastOp' = Op("walk", task[t].page, TRUE, task'[t].log, task[t].k,
                  task[t].top, TRUE)
  /\ UNCHANGED <<total, isAuthenticated, filterVars, sortVars,
                 medications, isLoading, error, totalCount,
                 isLoadingAll, loadingProgress, allMedicationsLoaded,
                 currentPage, hasMore, inOrder>>

\* the final fetch returned: commit the page
FinalFetchOk(t, countOk) ==
  /\ task[t].kind = "page" /\ task[t].pc = "final"
  /\ LET result == fetchMedicationsPage(PAGE_SIZE, task[t].doc, countOk)
     IN  /\ medications' = result.medications
         /\ totalCount' = task[t].count
         /\ hasMore' = result.hasMore
         /\ currentPage' = task[t].page
         /\ lastDocuments' = IF result.lastDoc # NullDoc
                             THEN MapSet(lastDocuments, task[t].page,
                                         result.lastDoc)
                             ELSE lastDocuments
         /\ isLoading' = FALSE
  /\ task' = [task EXCEPT ![t] = Idle]
  /\ lastOp' = Op("pageCommit", task[t].page, TRUE, task[t].log,
                  IF inOrder = task[t].k THEN task[t].k ELSE -1,
                  task[t].top, TRUE)
  /\ inOrder' = IF task[t].page = inOrder + 1 THEN inOrder + 1 ELSE inOrder
  /\ UNCHANGED <<total, isAuthenticated, filterVars, sortVars,
                 error, isLoadingAll, loadingProgress,
                 allMedicationsLoaded>>

\* mutant: the catch block records the error and leaves the loading flag set
CatchLoadPageStuck(t, thrown, op) ==
  /\ error' = ErrorMessage(thrown, "Failed to load medications")
  /\ task' = [task EXCEPT ![t] = Idle]
  /\ lastOp' = Op(op, task[t].page, TRUE, <<>>, inOrder, 0,
                  task[t].pre = <<medications, currentPage, hasMore,
                                  totalCount>>)
  /\ UNCHANGED <<total, isAuthenticated, filterVars, sortVars,
                 medications, isLoading, totalCount,
                 isLoadingAll, loadingProgress, allMedicationsLoaded,
                 currentPage, lastDocuments, hasMore, inOrder>>

\* the catch block of loadPage
CatchLoadPage(t, thrown, op) ==
  /\ error' = ErrorMessage(thrown, "Failed to load medications")
  /\ isLoading' = FALSE
  /\ task' = [task EXCEPT ![t] = Idle]
  /\ lastOp' = Op(op, task[t].page, TRUE, <<>>, inOrder, 0,
                  task[t].pre = <<medications, currentPage, hasMore,
                                  totalCount>>)
  /\ UNCHANGED <<total, isAuthenticated, filterVars, sortVars,
                 medications, totalCount, isLoadingAll,
                 loadingProgress, allMedicationsLoaded, currentPage,
                 lastDocuments, hasMore, inOrder>>

\* getMedicationCount() threw
CountFail(t, thrown) ==
  /\ task[t].kind = "page" /\ task[t].pc = "count"
  /\ CatchLoadPage(t, thrown, "countFail")

\* fetchMedicationsPage threw (its getDocs failed)
FetchFail(t, thrown) ==
  /\ task[t].kind = "page" /\ task[t].pc \in {"walk", "final"}
  /\ CatchLoadPage(t, thrown, "fetchFail")

\* ------------------------------------------------------ loadAllMedications

AllGuard == ~(isLoadingAll \/ isLoading)

\* loadAllMedications up to the first await of fetchAllMedications
LoadAllMedications ==
  /\ AllGuard => HasFree
  /\ IF AllGuard
     THEN /\ isLoadingAll' = TRUE
          /\ loadingProgress' = 0
          /\ error' = NoError
          /\ task' = [task EXCEPT ![FreeSlot] =
                        [Idle EXCEPT !.kind = "all", !.pc = "allCount"]]
          /\ lastOp' = Op("loadAll", 0, TRUE, <<>>, inOrder, 0, TRUE)
     ELSE UNCHANGED <<isLoadingAll, loadingProgress, error, task, lastOp>>
  /\ UNCHANGED <<total, isAuthenticated, filterVars, sortVars,
                 medications, isLoading, totalCount,
                 allMedicationsLoaded, currentPage, lastDocuments, hasMore,
                 inOrder>>

\* the count of fetchAllMedications returned or failed (failure is caught)
AllCountDone(t, ok) ==
  /\ task[t].kind = "all" /\ task[t].pc = "allCount"
  /\ task' = [task EXCEPT ![t] =
                [@ EXCEPT !.pc = "allFetch",
                          !.count = IF ok THEN total ELSE UnknownCount]]
  /\ lastOp' = Op("allCount", 0, ok, <<>>, inOrder, 0, TRUE)
  /\ UNCHANGED <<total, isAuthenticated, filterVars, sortVars,
                 storeVars, inOrder>>

\* mutant: the page replaces what was collected so far
PushReplace(array, items) == items

\* medications.push(...result.medications)
Push(array, items) == array \o items

\* one page of the drain loop returned: push it and report progress
AllFetchOk(t, countOk) ==
  /\ task[t].kind = "all" /\ task[t].pc = "allFetch"
  /\ LET result == fetchMedicationsPage(FETCH_ALL_PAGE_SIZE, task[t].doc,
                                        countOk)
         acc == Push(task[t].acc, result.medications)
     IN  /\ task' = [task EXCEPT ![t] =
                       [@ EXCEPT !.acc = acc,
                                 !.doc = result.lastDoc,
                                 !.i = @ + 1,
                                 !.pc = IF result.hasMore THEN "allFetch"
                                        ELSE "allReturn"]]
         /\ loadingProgress' = Len(acc)
         /\ totalCount' = IF task[t].count # UnknownCount
                          THEN task[t].count ELSE totalCount
  /\ lastOp' = Op("allProgress", 0, TRUE, <<>>, inOrder, 0, TRUE)
  /\ UNCHANGED <<total, isAuthenticated, filterVars, sortVars,
                 medications, isLoading, error,
                 isLoadingAll, allMedicationsLoaded, currentPage,
                 lastDocuments, hasMore, inOrder>>

\* fetchAllMedications returned: commit the whole collection
AllCommit(t) ==
  /\ task[t].kind = "all" /\ task[t].pc = "allReturn"
  /\ medications' = task[t].acc
  /\ totalCount' = Len(task[t].acc)
  /\ allMedicationsLoaded' = TRUE
  /\ isLoadingAll' = FALSE
  /\ currentPage' = 1
  /\ hasMore' = FALSE
  /\ task' = [task EXCEPT ![t] = Idle]
  /\ lastOp' = Op("allCommit", 0, TRUE, <<>>, inOrder, 0, TRUE)
  /\ UNCHANGED <<total, isAuthenticated, filterVars, sortVars,
                 isLoading, error, loadingProgress,
                 lastDocuments, inOrder>>

\* a page fetch of the drain loop threw: the catch block
AllFail(t, thrown) ==
  /\ task[t].kind = "all" /\ task[t].pc = "allFetch"
  /\ error' = ErrorMessage(thrown, "Failed to load all medications")
  /\ isLoadingAll' = FALSE
  /\ task' = [task EXCEPT ![t] = Idle]
  /\ lastOp' = Op("allFail", 0, TRUE, <<>>, inOrder, 0, TRUE)
  /\ UNCHANGED <<total, isAuthenticated, filterVars, sortVars,
                 medications, isLoading, totalCount,
                 loadingProgress, allMedicationsLoaded, currentPage,
                 lastDocuments, hasMore, inOrder>>

\* ------------------------------------------------------------ specification

\* the store as its constructor leaves it, with no call in flight
Constructed ==
  /\ medications = <<>>
  /\ isLoading = FALSE
  /\ error = NoError
  /\ totalCount = 0
  /\ isLoadingAll = FALSE
  /\ loadingProgress = 0
  /\ allMedicationsLoaded = FALSE
  /\ currentPage = 1
  /\ lastDocuments = EmptyMap
  /\ hasMore = TRUE
  /\ searchQuery = <<>>
  /\ matchedOnly = FALSE
  /\ unmatchedOnly = FALSE
  /\ liquidsOnly = FALSE
  /\ solidsOnly = FALSE
  /\ minNdcCount = 0
  /\ sortField = "name"
  /\ sortDirection = "asc"
  /\ viewMode = "cards"
  /\ isAuthenticated = FALSE
  /\ task = [t \in Tasks |-> Idle]
  /\ lastOp = Op("init", 0, TRUE, <<>>, 0, 0, TRUE)
  /\ inOrder = 0

Init ==
  /\ total \in Totals
  /\ Constructed

Next ==
  \/ \E page \in Pages : LoadPage(page)
  \/ NextPage
  \/ PrevPage
  \/ FirstPage
  \/ Refresh
  \/ LoadAllMedications
  \/ \E t \in Tasks : CountOk(t)
  \/ \E t \in Tasks, thrown \in Thrown : CountFail(t, thrown)
  \/ \E t \in Tasks, countOk \in BOOLEAN : WalkFetchOk(t, countOk)
  \/ \E t \in Tasks, countOk \in BOOLEAN : FinalFetchOk(t, countOk)
  \/ \E t \in Tasks, thrown \in Thrown : FetchFail(t, thrown)
  \/ \E t \in Tasks, ok \in BOOLEAN : AllCountDone(t, ok)
  \/ \E t \in Tasks, countOk \in BOOLEAN : AllFetchOk(t, countOk)
  \/ \E t \in Tasks : AllCommit(t)
  \/ \E t \in Tasks, thrown \in Thrown : AllFail(t, thrown)

Spec == Init /\ [][Next]_vars

\* ------------------------------------------------------------------ claims

\* the N-th slice of the collection in ascending key order
PageSlice(n) ==
  LET first == (n - 1) * PAGE_SIZE
      len == Max(Min(n * PAGE_SIZE, total) - first, 0)
  IN  [j \in 1..len |-> first + j]

PageNonEmpty(n) == n >= 1 /\ (n - 1) * PAGE_SIZE < total

\* the cursor of the last document of pages 1..n
CursorAfter(n) == IF n <= 0 THEN NullDoc ELSE Min(n * PAGE_SIZE, total)

Fetch(page, cursor) == [page |-> page, cursor |-> cursor]

ContinuationOps == {"count", "walk", "pageCommit", "countFail", "fetchFail",
                    "allCount", "allProgress", "allCommit", "allFail"}

HighestCached(n) == MaxOf({0} \cup {j \in DOMAIN lastDocuments : j <= n})

\* C1: page loads are single-flight.  At most one loadPage is between its
\* start and its commit or error step; a loadPage call made while isLoading
\* is true is dropped: it starts no task (no store round-trip) and leaves
\* medications, currentPage, hasMore, totalCount, error and the cursor cache
\* unchanged; and no continuation step starts a page load later.
C1_SingleFlight ==
  [][ /\ Cardinality(PageLoads') <= 1
      /\ (isLoading /\ lastOp'.op = "loadPage") =>
            /\ ~lastOp'.accepted
            /\ UNCHANGED <<medications, currentPage, hasMore, totalCount,
                           error, lastDocuments, task, isLoading>>
      /\ lastOp'.op \in ContinuationOps =>
            \A t \in Tasks : task'[t].kind = "page" => task[t].kind = "page"
    ]_vars

C1_Witness ==
  /\ lastOp.op = "loadPage" /\ ~lastOp.accepted
  /\ isLoading
  /\ Cardinality(PageLoads) = 1

\* C2: bulk load and page load are mutually exclusive: isLoading and
\* isLoadingAll are never both true.
C2_MutualExclusion == ~(isLoading /\ isLoadingAll)

\* C3: after a successful loadPage(N), currentPage = N and medications is
\* exactly the N-th slice of the collection (empty past the end).
C3_PageIsNthSlice ==
  lastOp.op = "pageCommit" =>
    /\ currentPage = lastOp.page
    /\ medications = PageSlice(lastOp.page)

\* a cold jump to the partial second page, reached through the walk
C3_Witness ==
  /\ lastOp.op = "pageCommit" /\ lastOp.page = 2
  /\ Len(lastOp.log) = 2
  /\ Len(medications) = 50 /\ medications[1] = 101

\* C4 as stated: after pages 1..K were loaded in order, loadPage(P) with
\* P <= K issues the single fetch of page P and no other.
C4_Original ==
  (lastOp.op = "pageCommit" /\ lastOp.k >= lastOp.page)
     => Len(lastOp.log) = 1

\* C4 amended: the same when the page before P is non-empty (or P = 1): the
\* only fetch is the one of page P, made with the cursor of page P - 1.
C4_CacheHit ==
  (/\ lastOp.op = "pageCommit"
   /\ lastOp.k >= lastOp.page
   /\ (lastOp.page = 1 \/ PageNonEmpty(lastOp.page - 1)))
     => lastOp.log = <<Fetch(lastOp.page, CursorAfter(lastOp.page - 1))>>

C4_Witness ==
  /\ lastOp.op = "pageCommit" /\ lastOp.page = 2 /\ lastOp.k >= 2
  /\ lastOp.log = <<Fetch(2, 100)>>
  /\ medications = PageSlice(2) /\ Len(medications) > 0

\* C5 as stated: after pages 1..K were loaded in order, loadPage(K + 2)
\* issues exactly two fetches, for page K + 1 and then for page K + 2.
C5_Original ==
  (/\ lastOp.op = "pageCommit"
   /\ lastOp.k >= 1 /\ lastOp.top <= lastOp.k
   /\ lastOp.page = lastOp.k + 2)
     => /\ Len(lastOp.log) = 2
        /\ lastOp.log[1].page = lastOp.k + 1
        /\ lastOp.log[2].page = lastOp.k + 2

\* C5 amended: the same when page K is non-empty; the two fetches use the
\* cursors of pages K and K + 1, and afterwards the cache holds an entry
\* for each of K + 1 and K + 2 that is non-empty.
C5_GapBridging ==
  (/\ lastOp.op = "pageCommit"
   /\ lastOp.k >= 1 /\ lastOp.top <= lastOp.k
   /\ lastOp.page = lastOp.k + 2
   /\ PageNonEmpty(lastOp.k))
     => /\ lastOp.log = <<Fetch(lastOp.k + 1, CursorAfter(lastOp.k)),
                          Fetch(lastOp.k + 2, CursorAfter(lastOp.k + 1))>>
        /\ \A j \in {lastOp.k + 1, lastOp.k + 2} :
              PageNonEmpty(j) =>
                 j \in DOMAIN lastDocuments /\ lastDocuments[j] = CursorAfter(j)

C5_Witness ==
  /\ lastOp.op = "pageCommit" /\ lastOp.k = 1 /\ lastOp.top = 1
  /\ lastOp.page = 3
  /\ lastOp.log = <<Fetch(2, 100), Fetch(3, 150)>>
  /\ 2 \in DOMAIN lastDocuments

\* C6: a loadPage(N) that finds no cursor for page N - 1 walks forward from
\* the highest cached page index M <= N - 1: a fetch of the walk is never
\* issued for a page index <= M.
C6_WalkFromHighestCached ==
  \A t \in PageLoads :
     task[t].pc = "walk" => task[t].i > HighestCached(task[t].page - 1)

\* C7: refresh(), in any state, clears the cursor cache and the bulk-load
\* flag and starts a load of page 1.
C7_RefreshLoadsFirstPage ==
  lastOp.op = "refresh" =>
    /\ lastDocuments = EmptyMap
    /\ ~allMedicationsLoaded
    /\ lastOp.accepted
    /\ \E t \in PageLoads : task[t].pc = "count" /\ task[t].page = 1

\* C8: a fetch issued for page 1 is always made with the null cursor, also
\* by the load that a refresh starts after clearing a cached page-1 cursor.
C8_FirstPageNullCursor ==
  /\ \A t \in PageLoads : \A n \in 1..Len(task[t].log) :
        task[t].log[n].page = 1 => task[t].log[n].cursor = NullDoc
  /\ \A n \in 1..Len(lastOp.log) :
        lastOp.log[n].page = 1 => lastOp.log[n].cursor = NullDoc

C8_Witness ==
  \E t \in PageLoads :
     /\ task[t].cleared # NullDoc
     /\ task[t].pc = "final"
     /\ task[t].log = <<Fetch(1, NullDoc)>>

\* C9: no step other than refresh removes an entry of the cursor cache.
C9_NoEviction ==
  [][ lastOp'.op # "refresh" =>
        \A j \in DOMAIN lastDocuments : j \in DOMAIN lastDocuments' ]_vars

C9_Witness ==
  /\ lastOp.op = "fetchFail"
  /\ Cardinality(DOMAIN lastDocuments) = 2

\* C10: when a page fetch fails during loadPage, error is set, isLoading is
\* false, and medications, currentPage, hasMore and totalCount have the
\* values they had before the call.
C10_FailureKeepsData ==
  lastOp.op = "fetchFail" =>
    /\ error # NoError
    /\ ~isLoading
    /\ lastOp.kept

\* C11: a failure of the count never fails a page load: after count() has
\* failed the load of page N is still under way and error is null.
C11_CountFailureDegrades ==
  lastOp.op = "countFail" =>
    /\ error = NoError
    /\ \E t \in PageLoads : task[t].page = lastOp.page

\* ------------------------------------------------------------------ liveness

\* the continuation steps of the call in slot t: the store call it awaits
\* returns or fails
Continue(t) ==
  \/ CountOk(t)
  \/ \E thrown \in Thrown : CountFail(t, thrown)
  \/ \E countOk \in BOOLEAN : WalkFetchOk(t, countOk)
  \/ \E countOk \in BOOLEAN : FinalFetchOk(t, countOk)
  \/ \E thrown \in Thrown : FetchFail(t, thrown)
  \/ \E ok \in BOOLEAN : AllCountDone(t, ok)
  \/ \E countOk \in BOOLEAN : AllFetchOk(t, countOk)
  \/ AllCommit(t)
  \/ \E thrown \in Thrown : AllFail(t, thrown)

\* every store call eventually returns or fails
LiveInit == Init

\* the deepest page load (through the whole walk) and the bulk load, started
\* in any order and at any time, with every outcome of every store call
LiveNext ==
  \/ LoadPage(MaxPage)
  \/ LoadAllMedications
  \/ \E t \in Tasks : Continue(t)

LiveSpec ==
  LiveInit /\ [][LiveNext]_vars /\ \A t \in Tasks : WF_vars(Continue(t))

\* C12: every page load and every bulk load that starts eventually finishes:
\* isLoading (isLoadingAll) true leads to it being false again, and the step
\* that clears the flag is the commit of the load or a catch that sets error.
C12_LoadsFinish ==
  /\ isLoading ~> ~isLoading
  /\ isLoadingAll ~> ~isLoadingAll
  /\ [][ (isLoading /\ ~isLoading') =>
            (lastOp'.op = "pageCommit" \/ error' # NoError) ]_vars
  /\ [][ (isLoadingAll /\ ~isLoadingAll') =>
            (lastOp'.op = "allCommit" \/ error' # NoError) ]_vars

\* a bulk load has ended in its catch after the deepest page load committed
C12_Witness ==
  /\ lastOp.op = "allFail"
  /\ ~isLoadingAll /\ ~isLoading
  /\ error # NoError
  /\ currentPage = MaxPage

\* ------------------------------------------- fetchMedicationsPage on its own

\* the page sizes and cursors fetchMedicationsPage is called with
PageSizes == {1, Step, PAGE_SIZE}
Cursors == {NullDoc} \cup (1..total)

FetchInit ==
  /\ total \in Totals
  /\ Constructed

\* one call of fetchMedicationsPage(pageSize, lastDocument) and its result
FetchPage(pageSize, lastDocument, countOk) ==
  /\ lastOp' = [op |-> "fetchMedicationsPage",
                pageSize |-> pageSize,
                lastDocument |-> lastDocument,
                result |-> fetchMedicationsPage(pageSize, lastDocument,
                                                countOk)]
  /\ UNCHANGED <<total, isAuthenticated, storeVars, filterVars, sortVars,
                 task, inOrder>>

FetchNext ==
  \E pageSize \in PageSizes, lastDocument \in Cursors, countOk \in BOOLEAN :
     FetchPage(pageSize, lastDocument, countOk)

FetchSpec == FetchInit /\ [][FetchNext]_vars

\* C13: in every result of fetchMedicationsPage(pageSize, cursor), hasMore
\* is true iff the number of records returned equals pageSize (and never
\* more than pageSize are returned, so fewer gives hasMore = false); the
\* returned cursor is null iff no record was returned, and is otherwise the
\* last record returned.
C13_HasMoreBoundary ==
  lastOp.op = "fetchMedicationsPage" =>
    LET r == lastOp.result
        n == Len(r.medications)
    IN  /\ n <= lastOp.pageSize
        /\ r.hasMore <=> (n = lastOp.pageSize)
        /\ (r.lastDoc = NullDoc) <=> (n = 0)
        /\ n > 0 => r.lastDoc = r.medications[n]

\* a full page that ends exactly at the end of the collection
C13_Witness ==
  /\ lastOp.op = "fetchMedicationsPage"
  /\ lastOp.pageSize = Step /\ lastOp.lastDocument # NullDoc
  /\ lastOp.result.hasMore
  /\ lastOp.result.lastDoc = total

\* ------------------------------------------------ the 250-record collection

ExampleInit ==
  /\ total = 250
  /\ Constructed

ExampleSpec == ExampleInit /\ [][Next]_vars

\* C14: on a collection of 250 records with pageSize = 100, a committed
\* loadPage(1) leaves hasMore = true and totalPages = 3, and a committed
\* loadPage(3) leaves exactly 50 records in medications and hasMore = false.
C14_Example250 ==
  (total = 250 /\ lastOp.op = "pageCommit") =>
    /\ lastOp.page = 1 => (hasMore /\ totalPages = 3)
    /\ lastOp.page = 3 => (Len(medications) = 50 /\ ~hasMore)

C14_Witness ==
  /\ total = 250
  /\ lastOp.op = "pageCommit" /\ lastOp.page = 3
  /\ Len(medications) = 50 /\ medications[1] = 201
  /\ totalPages = 3

\* the collection size is a positive multiple of the page size
ExactBoundary == total > 0 /\ total % PAGE_SIZE = 0
LastFullPage == total \div PAGE_SIZE

\* C15: at an exact page-size boundary the commit of the last full page
\* leaves canGoNext true; the commit of the page after it leaves an empty
\* list, hasMore = false and canGoNext false; and a nextPage() call made
\* while canGoNext is false starts no fetch and changes no state.
C15_OneSpuriousStep ==
  /\ [](  (ExactBoundary /\ lastOp.op = "pageCommit") =>
            /\ lastOp.page = LastFullPage =>
                 (Len(medications) = PAGE_SIZE /\ canGoNext)
            /\ lastOp.page = LastFullPage + 1 =>
                 (medications = <<>> /\ ~hasMore /\ ~canGoNext)  )
  /\ [][ (~canGoNext /\ NextPage) => UNCHANGED vars ]_vars

\* the spurious step has been taken on the 100-record collection
C15_Witness ==
  /\ ExactBoundary /\ LastFullPage = 1
  /\ lastOp.op = "pageCommit" /\ lastOp.page = 2
  /\ lastOp.log = <<Fetch(2, 100)>>
  /\ medications = <<>> /\ ~canGoNext

\* the records after cursor `from` up to and including record `to`
Run(from, to) == [j \in 1..(to - from) |-> from + j]

\* C16: repeated loads of a page commit the same list.  The cursor cache
\* remembers the last record of every non-empty page fetched since the last
\* refresh, and a remembered cursor never changes its value.  When page N
\* has been committed before (N <= inOrder: pages 1..N were committed since
\* the last refresh) a further commit of page N is again the list the
\* earlier one was: the records after the remembered end of page N - 1 up to
\* the remembered end of page N, or the empty list if that load found page
\* N empty and remembered no cursor.
C16_Determinism ==
  [][ /\ \A j \in (DOMAIN lastDocuments) \cap (DOMAIN lastDocuments') :
            lastDocuments'[j] = lastDocuments[j]
      /\ (lastOp'.op = "pageCommit" /\ lastOp'.page <= inOrder) =>
            LET n == lastOp'.page
                from == IF (n - 1) \in DOMAIN lastDocuments
                        THEN lastDocuments[n - 1] ELSE NullDoc
            IN  medications' = IF n \in DOMAIN lastDocuments
                               THEN Run(from, lastDocuments[n])
                               ELSE <<>>
    ]_vars

\* page 2 is committed a second time, from the cache, after pages 1, 2 and
\* 3 had been committed
C16_Witness ==
  /\ lastOp.op = "pageCommit" /\ lastOp.page = 2
  /\ inOrder >= 3
  /\ lastOp.log = <<Fetch(2, 100)>>
  /\ medications = Run(100, 150)

BulkLoads == {t \in Tasks : task[t].kind = "all"}

\* C17: fetchAllMedications returns every record of the collection exactly
\* once, in ascending key order: what it has collected after i pages is the
\* concatenation of pages 1..i, what it returns is the whole collection,
\* and that is what loadAllMedications commits.
C17_FetchAllComplete ==
  /\ \A t \in BulkLoads :
        /\ task[t].pc = "allFetch" =>
              task[t].acc = Run(0, task[t].i * FETCH_ALL_PAGE_SIZE)
        /\ task[t].pc = "allReturn" => task[t].acc = Run(0, total)
  /\ lastOp.op = "allCommit" => medications = Run(0, total)

\* the drain of a collection of exactly one full page: the second page is
\* empty
C17_Witness ==
  \E t \in BulkLoads :
     /\ task[t].pc = "allReturn"
     /\ total = FETCH_ALL_PAGE_SIZE
     /\ task[t].i = 2
     /\ Len(task[t].acc) = total

\* C18: without failures fetchAllMedications stops at the first page that
\* reports hasMore = false, after exactly floor(total / pageSize) + 1 page
\* fetches (every page before the last was full); each page fetch is
\* followed by one progress report, the reported count is what has been
\* collected, it never decreases during a bulk load and its last value is
\* the size of the collection.
C18_FetchAllTerminates ==
  /\ [](\A t \in BulkLoads :
          /\ task[t].pc = "allFetch" =>
                /\ task[t].i <= total \div FETCH_ALL_PAGE_SIZE
                /\ Len(task[t].acc) = task[t].i * FETCH_ALL_PAGE_SIZE
          /\ task[t].pc = "allReturn" =>
                /\ task[t].i = (total \div FETCH_ALL_PAGE_SIZE) + 1
                /\ loadingProgress = total)
  /\ [][ /\ lastOp'.op = "allProgress" =>
              /\ loadingProgress' >= loadingProgress
              /\ \E t \in BulkLoads :
                    /\ task'[t].i = task[t].i + 1
                    /\ loadingProgress' = Len(task'[t].acc)
         /\ loadingProgress' # loadingProgress =>
              lastOp'.op \in {"allProgress", "loadAll"}
         /\ \A t \in BulkLoads :
              task'[t].i # task[t].i =>
                 (lastOp'.op = "allProgress" \/ task'[t].kind # "all")
       ]_vars

\* the drain of 150 records has ended after two fetches
C18_Witness ==
  \E t \in BulkLoads :
     /\ task[t].pc = "allReturn"
     /\ total = 150
     /\ task[t].i = 2
     /\ loadingProgress = 150

\* ------------------------------------------------------------------ filters
\* In the filter specification a document is the record of the fields that
\* filtering reads, and a string is the sequence of its characters.

UpperCase == <<"A", "B", "C", "D", "E", "F", "G", "H", "I", "J", "K", "L", "M",
               "N", "O", "P", "Q", "R", "S", "T", "U", "V", "W", "X", "Y", "Z">>
LowerCase == <<"a", "b", "c", "d", "e", "f", "g", "h", "i", "j", "k", "l", "m",
               "n", "o", "p", "q", "r", "s", "t", "u", "v", "w", "x", "y", "z">>
Digits == {"0", "1", "2", "3", "4", "5", "6", "7", "8", "9"}
WhiteSpace == {" ", "\t", "\n"}

\* String.prototype.toLowerCase
toLowerCase(s) ==
  [i \in 1..Len(s) |->
     IF \E k \in 1..Len(UpperCase) : UpperCase[k] = s[i]
     THEN LowerCase[CHOOSE k \in 1..Len(UpperCase) : UpperCase[k] = s[i]]
     ELSE s[i]]

\* String.prototype.includes
includes(s, q) ==
  \E i \in 0..(Len(s) - Len(q)) : SubSeq(s, i + 1, i + Len(q)) = q

\* String.prototype.startsWith
startsWith(s, p) == Len(s) >= Len(p) /\ SubSeq(s, 1, Len(p)) = p

\* String.prototype.trim
trim(s) ==
  LET black == {i \in 1..Len(s) : s[i] \notin WhiteSpace}
  IN  IF black = {} THEN <<>>
      ELSE SubSeq(s, CHOOSE i \in black : \A j \in black : i <= j, MaxOf(black))

\* the length of the longest prefix of s, from position `from` on, made of
\* characters of class C
RECURSIVE RunLength(_, _, _)
RunLength(s, from, C) ==
  IF from <= Len(s) /\ s[from] \in C THEN 1 + RunLength(s, from + 1, C) ELSE 0

\* name.replace(/^\{\d+\s+/, '')
StripFormatCode(name) ==
  LET d == RunLength(name, 2, Digits)
      w == RunLength(name, 2 + d, WhiteSpace)
  IN  IF Len(name) >= 1 /\ name[1] = "{" /\ d >= 1 /\ w >= 1
      THEN SubSeq(name, 2 + d + w, Len(name))
      ELSE name

\* mutant: the closing brace goes whether or not a format code was removed
cleanMedicationNameAnyBrace(name) ==
  IF name = <<>> THEN <<>>
  ELSE LET cleaned == StripFormatCode(name)
           closed == IF Len(cleaned) >= 1 /\ cleaned[Len(cleaned)] = "}"
                     THEN SubSeq(cleaned, 1, Len(cleaned) - 1)
                     ELSE cleaned
       IN  trim(closed)

\* cleanMedicationName
cleanMedicationName(name) ==
  IF name = <<>> THEN <<>>
  ELSE LET cleaned == StripFormatCode(name)
           closed == IF startsWith(name, <<"{">>) /\ cleaned # name
                        /\ Len(cleaned) >= 1 /\ cleaned[Len(cleaned)] = "}"
                     THEN SubSeq(cleaned, 1, Len(cleaned) - 1)
                     ELSE cleaned
       IN  trim(closed)

UNMATCHED_PREFIX == <<"U", "N", "M", "A", "T", "C", "H", "E", "D", "_">>

\* an optional field that is absent (null or undefined)
Undefined == "undefined"

\* prices are exact multiples of a hundredth: 80 stands for 0.80
Medication(rxcui, name, ingredient_name, is_liquid, ndc11_all, price) ==
  [rxcui |-> rxcui,
   name |-> name,
   classification |-> [ingredient_name |-> ingredient_name],
   conversion_values |-> [is_liquid |-> is_liquid],
   ndc_links |-> [ndc11_all |-> ndc11_all],
   pricing_stats |-> [median_unit_price |-> price]]

\* the documents that collections are made of, in rxcui order
Catalogue ==
  << Medication(<<"1", "0">>, <<"{", "1", " ", "A", "b", "}">>,
                <<"a", "b">>, FALSE, <<"n1", "n2">>, 80),
     Medication(<<"2">>, <<"b", " ", "a">>,
                Undefined, TRUE, <<>>, 0),
     Medication(UNMATCHED_PREFIX \o <<"a">>, <<"{", "A", "}">>,
                <<"C">>, FALSE, <<"n3">>, 1000),
     Medication(UNMATCHED_PREFIX \o <<"b">>, <<" ", "B", "1", " ">>,
                Undefined, TRUE, <<"n4", "n5", "n6">>, 25),
     Medication(UNMATCHED_PREFIX \o <<"c">>, <<"A", "b", " ">>,
                Undefined, FALSE, <<"n7", "n8">>, 80) >>

\* the collection made of the catalogue documents with index in S
RECURSIVE Collection(_, _)
Collection(S, from) ==
  IF from > Len(Catalogue) THEN <<>>
  ELSE (IF from \in S THEN <<Catalogue[from]>> ELSE <<>>)
       \o Collection(S, from + 1)

\* the texts typed into the search box
Queries == { <<>>, <<" ">>, <<"a">>, <<"A">>, <<"B">>, <<" ", "a">>,
             <<"{">>, <<"1">>, <<"u">>, <<"a", "b">> }

\* setMinNdcCount is called with -1 .. MaxNdc
MaxNdc == 3

\* the arrow function of the search filter
MatchesSearch(m, query) ==
  \/ includes(toLowerCase(cleanMedicationName(m.name)), query)
  \/ includes(toLowerCase(m.rxcui), query)
  \/ /\ m.classification.ingredient_name # Undefined
     /\ includes(toLowerCase(m.classification.ingredient_name), query)

\* mutant: the lower bound on the linked codes is exclusive
HasMinNdcStrict(m) == Len(m.ndc_links.ndc11_all) > minNdcCount

\* the arrow function of the linked-code filter
HasMinNdc(m) == Len(m.ndc_links.ndc11_all) >= minNdcCount

IsUnmatched(m) == startsWith(m.rxcui, UNMATCHED_PREFIX)
IsLiquid(m) == m.conversion_values.is_liquid

\* the getter filteredMedications: the filters applied one after the other
filteredMedications ==
  LET query == toLowerCase(searchQuery)
      searched == IF trim(searchQuery) # <<>>
                  THEN SelectSeq(medications,
                                 LAMBDA m : MatchesSearch(m, query))
                  ELSE medications
      matched == IF matchedOnly
                 THEN SelectSeq(searched, LAMBDA m : ~IsUnmatched(m))
                 ELSE searched
      unmatched == IF unmatchedOnly
                   THEN SelectSeq(matched, LAMBDA m : IsUnmatched(m))
                   ELSE matched
      liquids == IF liquidsOnly
                 THEN SelectSeq(unmatched, LAMBDA m : IsLiquid(m))
                 ELSE unmatched
      solids == IF solidsOnly
                THEN SelectSeq(liquids, LAMBDA m : ~IsLiquid(m))
                ELSE liquids
  IN  IF minNdcCount > 0
      THEN SelectSeq(solids, LAMBDA m : HasMinNdc(m))
      ELSE solids

\* the label of a step of the filter specification
FilterOp(op) == Op(op, 0, TRUE, <<>>, 0, 0, TRUE)

paginationVars == <<total, isAuthenticated, storeVars, task, inOrder>>

setSearchQuery(query) ==
  /\ searchQuery' = query
  /\ lastOp' = FilterOp("setSearchQuery")
  /\ UNCHANGED <<paginationVars, sortVars,
                 matchedOnly, unmatchedOnly, liquidsOnly,
                 solidsOnly, minNdcCount>>

\* mutant: the toggle does not clear the other member of the pair
toggleMatchedOnlyPlain ==
  /\ matchedOnly' = ~matchedOnly
  /\ lastOp' = FilterOp("toggleMatchedOnly")
  /\ UNCHANGED <<paginationVars, sortVars,
                 searchQuery, unmatchedOnly, liquidsOnly,
                 solidsOnly, minNdcCount>>

toggleMatchedOnly ==
  /\ matchedOnly' = ~matchedOnly
  /\ unmatchedOnly' = IF matchedOnly' THEN FALSE ELSE unmatchedOnly
  /\ lastOp' = FilterOp("toggleMatchedOnly")
  /\ UNCHANGED <<paginationVars, sortVars,
                 searchQuery, liquidsOnly, solidsOnly,
                 minNdcCount>>

toggleUnmatchedOnly ==
  /\ unmatchedOnly' = ~unmatchedOnly
  /\ matchedOnly' = IF unmatchedOnly' THEN FALSE ELSE matchedOnly
  /\ lastOp' = FilterOp("toggleUnmatchedOnly")
  /\ UNCHANGED <<paginationVars, sortVars,
                 searchQuery, liquidsOnly, solidsOnly,
                 minNdcCount>>

toggleLiquidsOnly ==
  /\ liquidsOnly' = ~liquidsOnly
  /\ solidsOnly' = IF liquidsOnly' THEN FALSE ELSE solidsOnly
  /\ lastOp' = FilterOp("toggleLiquidsOnly")
  /\ UNCHANGED <<paginationVars, sortVars,
                 searchQuery, matchedOnly, unmatchedOnly,
                 minNdcCount>>

toggleSolidsOnly ==
  /\ solidsOnly' = ~solidsOnly
  /\ liquidsOnly' = IF solidsOnly' THEN FALSE ELSE liquidsOnly
  /\ lastOp' = FilterOp("toggleSolidsOnly")
  /\ UNCHANGED <<paginationVars, sortVars,
                 searchQuery, matchedOnly, unmatchedOnly,
                 minNdcCount>>

\* Math.max(0, count)
setMinNdcCount(count) ==
  /\ minNdcCount' = Max(0, count)
  /\ lastOp' = FilterOp("setMinNdcCount")
  /\ UNCHANGED <<paginationVars, sortVars,
                 searchQuery, matchedOnly, unmatchedOnly,
                 liquidsOnly, solidsOnly>>

\* mutant: resetFilters also dismisses the error
resetFiltersClearsError ==
  /\ searchQuery' = <<>>
  /\ matchedOnly' = FALSE
  /\ unmatchedOnly' = FALSE
  /\ liquidsOnly' = FALSE
  /\ solidsOnly' = FALSE
  /\ minNdcCount' = 0
  /\ error' = NoError
  /\ lastOp' = FilterOp("resetFilters")
  /\ UNCHANGED <<total, isAuthenticated, medications, isLoading, totalCount,
                 isLoadingAll, loadingProgress, allMedicationsLoaded,
                 currentPage, lastDocuments, hasMore, task, inOrder,
                 sortVars>>

resetFilters ==
  /\ searchQuery' = <<>>
  /\ matchedOnly' = FALSE
  /\ unmatchedOnly' = FALSE
  /\ liquidsOnly' = FALSE
  /\ solidsOnly' = FALSE
  /\ minNdcCount' = 0
  /\ lastOp' = FilterOp("resetFilters")
  /\ UNCHANGED <<paginationVars, sortVars>>

\* the store after loadPage(1) has committed the only page of a collection
\* drawn from the catalogue
FilterInit ==
  /\ \E S \in SUBSET (1..Len(Catalogue)) : medications = Collection(S, 1)
  /\ total = Len(medications)
  /\ totalCount = total
  /\ hasMore = FALSE
  /\ currentPage = 1
  /\ lastDocuments = IF medications # <<>>
                     THEN MapSet(EmptyMap, 1, medications[Len(medications)])
                     ELSE EmptyMap
  /\ isLoading = FALSE
  /\ error = NoError
  /\ isLoadingAll = FALSE
  /\ loadingProgress = 0
  /\ allMedicationsLoaded = FALSE
  /\ searchQuery = <<>>
  /\ matchedOnly = FALSE
  /\ unmatchedOnly = FALSE
  /\ liquidsOnly = FALSE
  /\ solidsOnly = FALSE
  /\ minNdcCount = 0
  /\ sortField = "name"
  /\ sortDirection = "asc"
  /\ viewMode = "cards"
  /\ isAuthenticated = TRUE
  /\ task = [t \in Tasks |-> Idle]
  /\ lastOp = FilterOp("pageCommit")
  /\ inOrder = 1

FilterNext ==
  \/ \E query \in Queries : setSearchQuery(query)
  \/ toggleMatchedOnly
  \/ toggleUnmatchedOnly
  \/ toggleLiquidsOnly
  \/ toggleSolidsOnly
  \/ \E count \in (-1)..MaxNdc : setMinNdcCount(count)
  \/ resetFilters

FilterSpec == FilterInit /\ [][FilterNext]_vars

\* text q occurs in text s, upper and lower case taken as equal
OccursIn(q, s) ==
  \E at \in 0..(Len(s) - Len(q)) :
     \A k \in 1..Len(q) : toLowerCase(<<s[at + k]>>) = toLowerCase(<<q[k]>>)

\* the search text is not blank
NonBlank(q) == \E k \in 1..Len(q) : q[k] \notin WhiteSpace

\* record R satisfies every enabled predicate
Satisfies(R) ==
  /\ NonBlank(searchQuery) =>
        \/ OccursIn(searchQuery, cleanMedicationName(R.name))
        \/ OccursIn(searchQuery, R.rxcui)
        \/ /\ R.classification.ingredient_name # Undefined
           /\ OccursIn(searchQuery, R.classification.ingredient_name)
  /\ matchedOnly => ~startsWith(R.rxcui, UNMATCHED_PREFIX)
  /\ unmatchedOnly => startsWith(R.rxcui, UNMATCHED_PREFIX)
  /\ liquidsOnly => R.conversion_values.is_liquid
  /\ solidsOnly => ~R.conversion_values.is_liquid
  /\ minNdcCount > 0 => Len(R.ndc_links.ndc11_all) >= minNdcCount

\* the position of record R in sequence s
PositionIn(R, s) == CHOOSE i \in 1..Len(s) : s[i] = R

\* C19: a record of the loaded slice is in filteredMedications iff it
\* satisfies every enabled predicate, filteredMedications holds nothing
\* else, and it keeps the records in the order they have in the slice.
C19_FilterConjunction ==
  LET out == filteredMedications
  IN  /\ \A i \in 1..Len(medications) :
            (\E j \in 1..Len(out) : out[j] = medications[i])
               <=> Satisfies(medications[i])
      /\ \A j \in 1..Len(out) : \E i \in 1..Len(medications) :
            medications[i] = out[j]
      /\ \A j, k \in 1..Len(out) :
            j < k => PositionIn(out[j], medications)
                       < PositionIn(out[k], medications)

\* a search, a pair filter and the linked-code bound select one record of
\* four
C19_Witness ==
  /\ Len(medications) = 4
  /\ NonBlank(searchQuery) /\ unmatchedOnly /\ liquidsOnly
  /\ minNdcCount = 3
  /\ filteredMedications = <<medications[4]>>

\* C20: matchedOnly and unmatchedOnly are never both true, liquidsOnly and
\* solidsOnly are never both true, and a toggle flips its own flag, leaves
\* the other member of its pair false when it enables its own, and leaves
\* the other pair alone.
C20_ExclusivePairs ==
  /\ [](~(matchedOnly /\ unmatchedOnly) /\ ~(liquidsOnly /\ solidsOnly))
  /\ [][ /\ lastOp'.op = "toggleMatchedOnly" =>
              /\ matchedOnly' = ~matchedOnly
              /\ matchedOnly' => ~unmatchedOnly'
              /\ UNCHANGED <<liquidsOnly, solidsOnly>>
         /\ lastOp'.op = "toggleUnmatchedOnly" =>
              /\ unmatchedOnly' = ~unmatchedOnly
              /\ unmatchedOnly' => ~matchedOnly'
              /\ UNCHANGED <<liquidsOnly, solidsOnly>>
         /\ lastOp'.op = "toggleLiquidsOnly" =>
              /\ liquidsOnly' = ~liquidsOnly
              /\ liquidsOnly' => ~solidsOnly'
              /\ UNCHANGED <<matchedOnly, unmatchedOnly>>
         /\ lastOp'.op = "toggleSolidsOnly" =>
              /\ solidsOnly' = ~solidsOnly
              /\ solidsOnly' => ~liquidsOnly'
              /\ UNCHANGED <<matchedOnly, unmatchedOnly>>
         /\ lastOp'.op = "resetFilters" =>
              ~(matchedOnly' \/ unmatchedOnly' \/ liquidsOnly' \/ solidsOnly')
       ]_vars

\* matchedOnly has just been enabled, with solidsOnly on
C20_Witness ==
  /\ lastOp.op = "toggleMatchedOnly"
  /\ matchedOnly /\ ~unmatchedOnly
  /\ solidsOnly

\* --------------------------------------------------------------------- sort

\* the values of the type SortField
SortFields == {"name", "rxcui", "median_price", "ndc_count"}

\* the order in which the collation of String.prototype.localeCompare
\* ranks the characters at its first level: white space, punctuation,
\* digits, letters; a letter and its capital have the same rank
CollationOrder ==
  <<"\t", "\n", " ", "_", "{", "}",
    "0", "1", "2", "3", "4", "5", "6", "7", "8", "9">> \o LowerCase

CollationRank(c) ==
  LET l == toLowerCase(<<c>>)[1]
  IN  IF \E k \in 1..Len(CollationOrder) : CollationOrder[k] = l
      THEN CHOOSE k \in 1..Len(CollationOrder) : CollationOrder[k] = l
      ELSE 0

\* String.prototype.localeCompare: the first level decides; texts equal at
\* the first level are told apart by case, the small letter first
localeCompare(a, b) ==
  LET n == Min(Len(a), Len(b))
      first == {i \in 1..n : CollationRank(a[i]) # CollationRank(b[i])}
      cased == {i \in 1..n : a[i] # b[i]}
      i1 == CHOOSE i \in first : \A j \in first : i <= j
      i3 == CHOOSE i \in cased : \A j \in cased : i <= j
  IN  IF first # {}
      THEN (IF CollationRank(a[i1]) < CollationRank(b[i1]) THEN -1 ELSE 1)
      ELSE IF Len(a) # Len(b)
      THEN (IF Len(a) < Len(b) THEN -1 ELSE 1)
      ELSE IF cased # {}
      THEN (IF toLowerCase(<<a[i3]>>) = <<a[i3]>> THEN -1 ELSE 1)
      ELSE 0

\* the comparator handed to sort
compareFn(a, b, field, dir) ==
  CASE field = "name" ->
         localeCompare(cleanMedicationName(a.name),
                       cleanMedicationName(b.name)) * dir
    [] field = "rxcui" -> localeCompare(a.rxcui, b.rxcui) * dir
    [] field = "median_price" ->
         (a.pricing_stats.median_unit_price
            - b.pricing_stats.median_unit_price) * dir
    [] field = "ndc_count" ->
         (Len(a.ndc_links.ndc11_all) - Len(b.ndc_links.ndc11_all)) * dir
    [] OTHER -> 0

Reverse(s) == [i \in 1..Len(s) |-> s[Len(s) + 1 - i]]

\* mutant: the descending order is the ascending order read backwards
ArraySortMirror(array, field, dir) ==
  LET n == Len(array)
      Before(i, j) ==
        LET c == compareFn(array[i], array[j], field, 1)
        IN  c < 0 \/ (c = 0 /\ i < j)
      Place(i) == 1 + Cardinality({j \in 1..n : Before(j, i)})
      ascending == [k \in 1..n |-> array[CHOOSE i \in 1..n : Place(i) = k]]
  IN  IF dir = 1 THEN ascending ELSE Reverse(ascending)

\* Array.prototype.sort is stable: element i of the array comes before
\* element j when the comparator puts it first, or puts neither first and
\* i < j
ArraySort(array, field, dir) ==
  LET n == Len(array)
      Before(i, j) ==
        LET c == compareFn(array[i], array[j], field, dir)
        IN  c < 0 \/ (c = 0 /\ i < j)
      Place(i) == 1 + Cardinality({j \in 1..n : Before(j, i)})
  IN  [k \in 1..n |-> array[CHOOSE i \in 1..n : Place(i) = k]]

\* the getter sortedMedications, for a given direction
SortedIn(direction) ==
  ArraySort(filteredMedications, sortField,
            IF direction = "asc" THEN 1 ELSE -1)

\* the getter sortedMedications
sortedMedications == SortedIn(sortDirection)

\* the value a record is sorted by
SortKey(m, field) ==
  CASE field = "name" -> cleanMedicationName(m.name)
    [] field = "rxcui" -> m.rxcui
    [] field = "median_price" -> m.pricing_stats.median_unit_price
    [] field = "ndc_count" -> Len(m.ndc_links.ndc11_all)

\* the label of a call of setSortField; history: whether the field was the
\* active one
SortOp(field) ==
  [op |-> "setSortField", field |-> field, active |-> sortField = field]

\* mutant: a new field keeps the direction of the previous one
setSortFieldKeepDirection(field) ==
  /\ IF sortField = field
     THEN /\ sortDirection' = (IF sortDirection = "asc" THEN "desc" ELSE "asc")
          /\ UNCHANGED sortField
     ELSE /\ sortField' = field
          /\ UNCHANGED sortDirection
  /\ lastOp' = SortOp(field)
  /\ UNCHANGED <<paginationVars, filterVars, viewMode>>

setSortField(field) ==
  /\ IF sortField = field
     THEN /\ sortDirection' = (IF sortDirection = "asc" THEN "desc" ELSE "asc")
          /\ UNCHANGED sortField
     ELSE /\ sortField' = field
          /\ sortDirection' = "asc"
  /\ lastOp' = SortOp(field)
  /\ UNCHANGED <<paginationVars, filterVars, viewMode>>

\* the filter and sort controls worked on one loaded page
SortInit == FilterInit

SortNext ==
  \/ \E field \in SortFields : setSortField(field)
  \/ \E query \in {<<>>, <<"a">>} : setSearchQuery(query)
  \/ toggleUnmatchedOnly
  \/ toggleSolidsOnly
  \/ \E count \in 0..MaxNdc : setMinNdcCount(count)

SortSpec == SortInit /\ [][SortNext]_vars

\* C21: setSortField(f) with f the active sort field flips sortDirection
\* and leaves sortField as it is; with f another field it sets sortField
\* to f and sortDirection to asc, whatever the direction was.
C21_SortKeySelection ==
  [][ lastOp'.op = "setSortField" =>
        IF lastOp'.field = sortField
        THEN /\ sortField' = sortField
             /\ sortDirection = "asc" => sortDirection' = "desc"
             /\ sortDirection = "desc" => sortDirection' = "asc"
        ELSE /\ sortField' = lastOp'.field
             /\ sortDirection' = "asc" ]_vars

\* a field other than the initial one has been selected and then selected
\* again, which has flipped the direction to desc
C21_Witness ==
  /\ lastOp.op = "setSortField"
  /\ lastOp.field = "ndc_count"
  /\ sortField = "ndc_count"
  /\ sortDirection = "desc"

\* the sorted view before a call of setSortField on the active field: the
\* call changes the direction and nothing else that the view is made from
SortedBefore ==
  SortedIn(IF sortDirection = "asc" THEN "desc" ELSE "asc")

\* C22 as stated: the second setSortField on the active field turns
\* sortedMedications into its exact reverse, records with equal sort keys
\* included.
C22_SameFieldReverses ==
  (lastOp.op = "setSortField" /\ lastOp.active) =>
     sortedMedications = Reverse(SortedBefore)

\* C22 amended: the second setSortField on the active field keeps the same
\* records, reverses the order of any two records with different sort keys
\* and keeps the order of any two records with equal sort keys.
C22_DistinctKeysReverse ==
  /\ [][ lastOp'.op = "setSortField" =>
           UNCHANGED <<medications, filterVars>> ]_vars
  /\ []((lastOp.op = "setSortField" /\ lastOp.active) =>
          LET before == SortedBefore
              after == sortedMedications
          IN  /\ Len(after) = Len(before)
              /\ \A i \in 1..Len(before) : \E j \in 1..Len(after) :
                    after[j] = before[i]
              /\ \A i, j \in 1..Len(before) :
                    i < j =>
                      IF SortKey(before[i], sortField)
                           = SortKey(before[j], sortField)
                      THEN PositionIn(before[i], after)
                             < PositionIn(before[j], after)
                      ELSE PositionIn(before[i], after)
                             > PositionIn(before[j], after))

\* all five records sorted by price, descending after the second selection:
\* the two records priced 0.80 are in slice order, dearer ones before them
C22_Witness ==
  /\ lastOp.op = "setSortField"
  /\ sortField = "median_price"
  /\ sortDirection = "desc"
  /\ Len(sortedMedications) = 5
  /\ sortedMedications[1] = Catalogue[3]
  /\ sortedMedications[2] = Catalogue[1]
  /\ sortedMedications[3] = Catalogue[5]
  /\ sortedMedications[5] = Catalogue[2]

\* -------------------------------------------------------------------- stats

\* the quotient n / d of two numbers, kept as a fraction
Quotient(n, d) == [num |-> n, den |-> d]

\* the number 0, as a fraction
Zero == Quotient(0, 1)

\* values.reduce((sum, v) => sum + v, 0)
RECURSIVE reduceSum(_)
reduceSum(values) ==
  IF values = <<>> THEN 0
  ELSE reduceSum(SubSeq(values, 1, Len(values) - 1)) + values[Len(values)]

\* mutant: a record without a price counts as a price of 0
pricesWithValueAll(list) == list

\* the records of the list that have a price
pricesWithValue(list) ==
  SelectSeq(list, LAMBDA m : m.pricing_stats.median_unit_price > 0)

\* the getter stats
stats ==
  LET list == medications
      matched == SelectSeq(list, LAMBDA m : ~startsWith(m.rxcui,
                                                         UNMATCHED_PREFIX))
      liquids == SelectSeq(list, LAMBDA m : m.conversion_values.is_liquid)
      totalNdcs == reduceSum([i \in 1..Len(list) |->
                               Len(list[i].ndc_links.ndc11_all)])
      priced == pricesWithValue(list)
      avgPrice == IF Len(priced) > 0
                  THEN Quotient(
                         reduceSum([i \in 1..Len(priced) |->
                            priced[i].pricing_stats.median_unit_price]),
                         Len(priced))
                  ELSE Zero
  IN  [total |-> totalCount,
       pageCount |-> Len(list),
       matched |-> Len(matched),
       unmatched |-> Len(list) - Len(matched),
       liquids |-> Len(liquids),
       solids |-> Len(list) - Len(liquids),
       totalNdcs |-> totalNdcs,
       avgMedianPrice |-> avgPrice]

\* the sum of the prices of the records of the slice at the positions in S
RECURSIVE PriceTotal(_)
PriceTotal(S) ==
  IF S = {} THEN 0
  ELSE LET i == CHOOSE i \in S : TRUE
       IN  medications[i].pricing_stats.median_unit_price
             + PriceTotal(S \ {i})

\* C23: stats.avgMedianPrice is the sum of median_unit_price over exactly
\* the records of the loaded slice whose median_unit_price is above 0,
\* divided by the number of those records, and 0 when there is none; a
\* record priced 0 adds to neither.
C23_AveragePrice ==
  LET priced == {i \in 1..Len(medications) :
                   medications[i].pricing_stats.median_unit_price > 0}
  IN  IF priced = {}
      THEN stats.avgMedianPrice = Zero
      ELSE /\ stats.avgMedianPrice.num = PriceTotal(priced)
           /\ stats.avgMedianPrice.den = Cardinality(priced)

\* the slice of all five records, one of them priced 0: the average is
\* (0.80 + 10.00 + 0.25 + 0.80) / 4
C23_Witness ==
  /\ Len(medications) = 5
  /\ medications[2].pricing_stats.median_unit_price = 0
  /\ stats.avgMedianPrice = Quotient(1185, 4)
  /\ stats.pageCount = 5

\* --------------------------------------------------------------- initialize

NotConfiguredMessage ==
  "Firebase is not configured. Please check your .env file."

\* initialize() up to its first await (initAuth); the application calls it
\* once, when it is mounted. `configured` is the result of
\* isFirebaseConfigured().
Initialize(configured) ==
  /\ lastOp.op = "init"
  /\ IF configured
     THEN /\ task' = [task EXCEPT ![FreeSlot] =
                        [Idle EXCEPT !.kind = "auth", !.pc = "initAuth"]]
          /\ UNCHANGED error
     ELSE /\ error' = NotConfiguredMessage
          /\ UNCHANGED task
  /\ lastOp' = Op("initialize", 0, configured, <<>>, inOrder, 0, TRUE)
  /\ UNCHANGED <<total, isAuthenticated, filterVars, sortVars, medications,
                 isLoading, totalCount, isLoadingAll, loadingProgress,
                 allMedicationsLoaded, currentPage, lastDocuments, hasMore,
                 inOrder>>

\* initAuth() returned: isAuthenticated is set and loadPage(1) runs up to
\* its first await; initialize has nothing left to do when loadPage returns
AuthOk(t) ==
  /\ task[t].kind = "auth" /\ task[t].pc = "initAuth"
  /\ isAuthenticated' = TRUE
  /\ IF PageGuard(1)
     THEN /\ isLoading' = TRUE
          /\ error' = NoError
          /\ task' = [task EXCEPT ![t] =
                        [Idle EXCEPT !.kind = "page", !.pc = "count",
                                     !.page = 1,
                                     !.pre = <<medications, currentPage,
                                               hasMore, totalCount>>]]
     ELSE /\ task' = [task EXCEPT ![t] = Idle]
          /\ UNCHANGED <<isLoading, error>>
  /\ lastOp' = Op("authOk", 1, PageGuard(1), <<>>, inOrder, 0, TRUE)
  /\ UNCHANGED <<total, filterVars, sortVars, medications, totalCount,
                 isLoadingAll, loadingProgress, allMedicationsLoaded,
                 currentPage, lastDocuments, hasMore, inOrder>>

\* initAuth() threw: the catch block of initialize
AuthFail(t, thrown) ==
  /\ task[t].kind = "auth" /\ task[t].pc = "initAuth"
  /\ error' = ErrorMessage(thrown, "Failed to authenticate")
  /\ isAuthenticated' = FALSE
  /\ task' = [task EXCEPT ![t] = Idle]
  /\ lastOp' = Op("authFail", 0, TRUE, <<>>, inOrder, 0, TRUE)
  /\ UNCHANGED <<total, filterVars, sortVars, medications, isLoading,
                 totalCount, isLoadingAll, loadingProgress,
                 allMedicationsLoaded, currentPage, lastDocuments, hasMore,
                 inOrder>>

\* the session from the mounting of the application on; the refresh button,
\* the page jump and the bulk load are at hand as soon as the page is shown
AuthInit == Init

AuthNext ==
  \/ \E configured \in BOOLEAN : Initialize(configured)
  \/ \E t \in Tasks : AuthOk(t)
  \/ \E t \in Tasks, thrown \in Thrown : AuthFail(t, thrown)
  \/ lastOp.op # "init" /\ Refresh
  \/ lastOp.op # "init" /\ LoadPage(MaxPage)
  \/ lastOp.op # "init" /\ LoadAllMedications
  \/ \E t \in Tasks : Continue(t)

AuthSpec == AuthInit /\ [][AuthNext]_vars

\* a store call is in flight
FetchInFlight == \E t \in Tasks : task[t].kind \in {"page", "all"}

\* C24 (first half): when initAuth fails, error is set, isAuthenticated is
\* false, authentication is not tried again and initialize issues no count
\* or page fetch.
C24_AuthFailureSurfaced ==
  /\ [](lastOp.op = "authFail" =>
          /\ error # NoError
          /\ ~isAuthenticated
          /\ \A t \in Tasks : task[t].kind # "auth")
  /\ [][ lastOp'.op = "authFail" =>
           \A t \in Tasks : \/ task'[t] = task[t]
                            \/ task[t].kind = "auth" /\ task'[t] = Idle ]_vars

\* C24: the first half, and the failure blocks the session: with no store
\* call in flight when authentication fails, no later operation issues one.
C24_AuthFailureBlocksSession ==
  /\ C24_AuthFailureSurfaced
  /\ [][ (lastOp.op = "authFail" /\ ~FetchInFlight) => ~FetchInFlight' ]_vars

\* ------------------------------------------------------------ local controls

setViewMode(mode) ==
  /\ viewMode' = mode
  /\ lastOp' = FilterOp("setViewMode")
  /\ UNCHANGED <<paginationVars, filterVars, sortField, sortDirection>>

\* the controls of the filter bar worked while pages and the whole
\* collection are loaded
LocalInit ==
  /\ total = Step
  /\ Constructed

LocalNext ==
  \/ LoadPage(2)
  \/ LoadAllMedications
  \/ \E t \in Tasks : Continue(t)
  \/ setSearchQuery(<<"a">>)
  \/ toggleMatchedOnly
  \/ toggleUnmatchedOnly
  \/ toggleLiquidsOnly
  \/ toggleSolidsOnly
  \/ setMinNdcCount(1)
  \/ resetFilters
  \/ setSortField("name")
  \/ setViewMode("table")

LocalSpec == LocalInit /\ [][LocalNext]_vars

LocalOps ==
  {"setSearchQuery", "toggleMatchedOnly", "toggleUnmatchedOnly",
   "toggleLiquidsOnly", "toggleSolidsOnly", "setMinNdcCount",
   "resetFilters", "setSortField", "setViewMode"}

\* C25: the filter, sort and view operations are accepted in every state,
\* a load in flight or not, issue no store call and leave medications,
\* currentPage, hasMore, totalCount, isLoading, isLoadingAll, error and the
\* cursor cache as they are.
C25_LocalOperations ==
  /\ [](/\ ENABLED setSearchQuery(<<"a">>)
        /\ ENABLED toggleMatchedOnly
        /\ ENABLED toggleUnmatchedOnly
        /\ ENABLED toggleLiquidsOnly
        /\ ENABLED toggleSolidsOnly
        /\ ENABLED setMinNdcCount(1)
        /\ ENABLED resetFilters
        /\ ENABLED setSortField("name")
        /\ ENABLED setViewMode("table"))
  /\ [][ lastOp'.op \in LocalOps =>
           UNCHANGED <<medications, currentPage, hasMore, totalCount,
                       isLoading, isLoadingAll, error, lastDocuments,
                       task>> ]_vars

\* the sort direction has been flipped, with a filter set, while a page
\* load awaits its page from the store
C25_Witness ==
  /\ lastOp.op = "setSortField"
  /\ sortDirection = "desc"
  /\ isLoading
  /\ \E t \in PageLoads : task[t].pc = "final"
  /\ minNdcCount = 1

\* ------------------------------------------------------ cleanMedicationName

\* names are texts of at most MaxNameLen characters
MaxNameLen == 4

\* a brace of each kind, a digit, two kinds of white space and a letter
NameAlphabet == {"{", "}", "1", " ", "\t", "a"}

ExampleName ==
  <<"{", "1", " ", "a", "m", "o", "x", "i", "c", "i", "l", "l", "i", "n",
    " ", "2", "5", "0", " ", "M", "G", " ", "O", "r", "a", "l", " ", "C",
    "a", "p", "s", "u", "l", "e", "}">>

ExampleCleaned ==
  <<"a", "m", "o", "x", "i", "c", "i", "l", "l", "i", "n", " ", "2", "5",
    "0", " ", "M", "G", " ", "O", "r", "a", "l", " ", "C", "a", "p", "s",
    "u", "l", "e">>

Names ==
  {ExampleName}
    \cup UNION {[1..n -> NameAlphabet] : n \in 0..MaxNameLen}

\* the store as constructed, and a name about to be cleaned
CleanInit ==
  /\ total = 0
  /\ medications = <<>>
  /\ isLoading = FALSE
  /\ error = NoError
  /\ totalCount = 0
  /\ isLoadingAll = FALSE
  /\ loadingProgress = 0
  /\ allMedicationsLoaded = FALSE
  /\ currentPage = 1
  /\ lastDocuments = EmptyMap
  /\ hasMore = TRUE
  /\ searchQuery = <<>>
  /\ matchedOnly = FALSE
  /\ unmatchedOnly = FALSE
  /\ liquidsOnly = FALSE
  /\ solidsOnly = FALSE
  /\ minNdcCount = 0
  /\ sortField = "name"
  /\ sortDirection = "asc"
  /\ viewMode = "cards"
  /\ isAuthenticated = FALSE
  /\ task = [t \in Tasks |-> Idle]
  /\ \E name \in Names : lastOp = [op |-> "name", name |-> name]
  /\ inOrder = 0

\* the call of cleanMedicationName on the name, and its result
CleanName ==
  /\ lastOp.op = "name"
  /\ lastOp' = [op |-> "cleanMedicationName",
                name |-> lastOp.name,
                result |-> cleanMedicationName(lastOp.name)]
  /\ UNCHANGED <<total, isAuthenticated, storeVars, filterVars, sortVars,
                 task, inOrder>>

CleanNext == CleanName

CleanSpec == CleanInit /\ [][CleanNext]_vars

\* the name begins with "{", d digits and w characters of white space, and
\* the white space ends there
TagAt(name, d, w) ==
  /\ Len(name) >= 1 + d + w
  /\ name[1] = "{"
  /\ \A i \in 2..(1 + d) : name[i] \in Digits
  /\ \A i \in (2 + d)..(1 + d + w) : name[i] \in WhiteSpace
  /\ Len(name) > 1 + d + w => name[2 + d + w] \notin WhiteSpace

\* text s without its last character if that is "}"
DropBrace(s) ==
  IF s # <<>> /\ s[Len(s)] = "}" THEN SubSeq(s, 1, Len(s) - 1) ELSE s

\* C26: cleanMedicationName removes a leading tag of "{", digits and white
\* space and, only when it has removed that tag, one closing brace at the
\* end, and then trims; a name that does not begin with such a tag comes
\* back trimmed and otherwise unchanged; the name
\* "{1 amoxicillin 250 MG Oral Capsule}" gives
\* "amoxicillin 250 MG Oral Capsule".
C26_CleanName ==
  lastOp.op = "cleanMedicationName" =>
    LET name == lastOp.name
        result == lastOp.result
        tags == {dw \in (1..Len(name)) \X (1..Len(name)) :
                   TagAt(name, dw[1], dw[2])}
    IN  /\ \A dw \in tags :
              result = trim(DropBrace(SubSeq(name, 2 + dw[1] + dw[2],
                                             Len(name))))
        /\ tags = {} => result = trim(name)
        /\ name = ExampleName => result = ExampleCleaned

\* the example of the claim has been cleaned
C26_Witness ==
  /\ lastOp.op = "cleanMedicationName"
  /\ lastOp.name = ExampleName
  /\ lastOp.result = ExampleCleaned
  /\ Len(lastOp.result) = Len(lastOp.name) - 4

\* ------------------------------------------------ bulk flag, cache, outcomes

\* C27: whenever allMedicationsLoaded is true and no load is in flight,
\* medications holds the whole collection; no page load after a successful
\* loadAllMedications puts a single page in its place while the flag stays
\* true.
C27_BulkFlagSound ==
  (allMedicationsLoaded /\ ~isLoading /\ ~isLoadingAll) =>
     Len(medications) = total

\* C28: once refresh() has cleared the cursor cache, a page load that was
\* in flight when refresh() was called (the refresh's own loadPage(1) was
\* dropped by the guard for that reason) writes no cursor into the cache.
C28_RefreshIsolatesCache ==
  [][ (lastOp.op = "refresh" /\ ~lastOp.accepted) =>
        lastDocuments' = lastDocuments ]_vars

\* C29: each entry of the cursor cache at page index i is the cursor of the
\* last record of page i, record min(i * pageSize, total), and no page index
\* whose page is empty has an entry.
C29_CacheSound ==
  \A i \in DOMAIN lastDocuments :
     /\ lastDocuments[i] = Min(i * PAGE_SIZE, total)
     /\ (i - 1) * PAGE_SIZE < total

\* the cache holds the cursors of pages 1 and 2 of a collection that ends
\* within page 2, and a later load has failed
C29_Witness ==
  /\ total = 150
  /\ DOMAIN lastDocuments = {1, 2}
  /\ lastDocuments[2] = 150
  /\ lastOp.op = "fetchFail"

\* a session that begins with loadAllMedications on the store as
\* constructed: before the call medications is empty, currentPage is 1,
\* hasMore is true and allMedicationsLoaded is false
BulkInit == Init

BulkNext ==
  \/ lastOp.op = "init" /\ LoadAllMedications
  \/ lastOp.op # "init" /\ \E page \in {1, 2} : LoadPage(page)
  \/ \E t \in Tasks : Continue(t)

BulkSpec == BulkInit /\ [][BulkNext]_vars

\* C30 (success): the commit of loadAllMedications sets, in one step,
\* medications to the whole collection, totalCount to its length,
\* currentPage to 1, hasMore to false, allMedicationsLoaded to true and
\* isLoadingAll to false, and leaves the cursor cache as it is.
C30_BulkCommit ==
  [][ lastOp'.op = "allCommit" =>
        /\ medications' = Run(0, total)
        /\ totalCount' = Len(medications')
        /\ currentPage' = 1
        /\ ~hasMore'
        /\ allMedicationsLoaded'
        /\ ~isLoadingAll'
        /\ lastDocuments' = lastDocuments ]_vars

\* C30: the success half, and a failed loadAllMedications sets error and
\* isLoadingAll = false and leaves medications, currentPage, hasMore and
\* allMedicationsLoaded as they were before the call.
C30_BulkOutcome ==
  /\ C30_BulkCommit
  /\ [](lastOp.op = "allFail" =>
          /\ error # NoError
          /\ ~isLoadingAll
          /\ medications = <<>>
          /\ currentPage = 1
          /\ hasMore
          /\ ~allMedicationsLoaded)

====
